---- MODULE Spec2Model ----
(***************************************************************************)
(* A model of curs (src/src/lib.rs): the Request builder, the body-encoding *)
(* decision of Request::send, MultipartBodyBuilder::build, and             *)
(* DecodableResult::decode_success.                                        *)
(*                                                                         *)
(* Text and bytes are sequences of atoms.  An atom is one character, or    *)
(* one literal piece of a format string of the source (for instance the    *)
(* atom "Content-Disposition: form-data; name=\"").  CRLF is one atom, so  *)
(* "\r\n\r\n" is <<CRLF, CRLF>>.  Option<T> is a sequence of length 0 or 1. *)
(***************************************************************************)
EXTENDS Integers, Sequences, FiniteSets, TLC

VARIABLES method, url, params, headers, files, raw_body,
          pc, wire, result, decoded, body_read, last_call, last_body_arg

vars == <<method, url, params, headers, files, raw_body,
          pc, wire, result, decoded, body_read, last_call, last_body_arg>>

request == <<method, url, params, headers, files, raw_body>>

\* ------------------------------------------------------------- bounds
MaxParams == 2
MaxFiles == 2

\* ------------------------------------------------------------ options
None == <<>>
Some(x) == <<x>>
IsSome(o) == o # <<>>
Unwrap(o) == o[1]

\* -------------------------------------------------------------- atoms
CRLF == "\r\n"
DASHES == "--"
QUOTE == "\""

\* ------------------------------------------------------- input domains
Methods == {"Get", "Head", "Post"}

HOST == "http://stub"
Urls == { <<HOST, "/some_post">>,
          <<HOST, "?", "k=v">>,
          <<"/no_scheme">> }

ParamPool == { << <<"k", "1">>, <<"a", " ", "b">> >>,
               << <<"k", "2">>, <<"?", "&", "=">> >> }

PngPath == <<"tests", "fixtures", "test.png">>
BinPath == <<"tmp", "data.bin">>
MissingPath == <<"tmp", "missing.txt">>
DirPath == <<"tmp", "somedir">>
RootPath == <<>>

FilePool == { [name |-> <<"shim.png">>, mime |-> None, path |-> PngPath],
              [name |-> <<"doc">>, mime |-> Some("text/plain"), path |-> BinPath],
              [name |-> <<"gone">>, mime |-> None, path |-> MissingPath],
              [name |-> <<"dir">>, mime |-> None, path |-> DirPath],
              [name |-> <<"root">>, mime |-> None, path |-> RootPath] }

HeaderNames == {"content-type", "user-agent"}
HeaderPool == { <<"content-type", <<"application/potato">> >> }

RawBodies == { <<"A potato's body">> }

Things == { [foo |-> <<"this">>, serializable |-> TRUE],
            [foo |-> <<"that">>, serializable |-> FALSE] }

NoThing == [foo |-> <<>>, serializable |-> FALSE]
\* The argument of the most recent json or override_body call.
NoBodyArg == [via |-> "none", thing |-> NoThing, text |-> <<>>]

\* ------------------------------------------------------------ helpers
RECURSIVE Flatten(_)
Flatten(ss) == IF ss = <<>> THEN <<>> ELSE Head(ss) \o Flatten(Tail(ss))

SeqsUpTo(S, n) == UNION { [1..k -> S] : k \in 1..n }

IsPrefix(s, t) == Len(s) <= Len(t) /\ SubSeq(t, 1, Len(s)) = s

Last(s) == s[Len(s)]

\* ------------------------------------------------ url (rust-url crate)
\* into_url(): an absolute URL parses, anything else is an error.
IntoUrl(u) == IF Len(u) >= 1 /\ u[1] = HOST THEN Some(u) ELSE None

\* Url::serialize(): an absolute URL with an empty path gets the path "/".
Serialize(u) ==
    IF Len(u) = 1 \/ (Len(u) >= 2 /\ u[2] = "?")
    THEN <<u[1], "/">> \o SubSeq(u, 2, Len(u))
    ELSE u

\* url::form_urlencoded byte serialisation of one character.
Unreserved == {"a", "b", "k", "1", "2", "*", "-", ".", "_"}
ByteSerialize(c) ==
    CASE c = " " -> <<"+">>
      [] c \in Unreserved -> <<c>>
      [] c = "&" -> <<"%", "2", "6">>
      [] c = "=" -> <<"%", "3", "D">>
      [] c = "?" -> <<"%", "3", "F">>
      [] OTHER -> <<"%", "X", "X">>

\* Mutant: the text is copied without percent-encoding.
EncodeTextRaw(s) == s

EncodeText(s) == Flatten([i \in 1..Len(s) |-> ByteSerialize(s[i])])

\* url::form_urlencoded::serialize(&self.params)
RECURSIVE FormUrlencodedSerialize(_)
FormUrlencodedSerialize(ps) ==
    IF ps = <<>> THEN <<>>
    ELSE LET p == Last(ps)
             front == SubSeq(ps, 1, Len(ps) - 1)
             pair == EncodeText(p[1]) \o <<"=">> \o EncodeText(p[2])
         IN IF front = <<>> THEN pair
            ELSE FormUrlencodedSerialize(front) \o <<"&">> \o pair

\* ------------------------------------------------------- file system
\* Path::file_name(): the final component, unless the path has none.
FileName(path) ==
    IF path = <<>> \/ Last(path) = ".." THEN None ELSE Some(Last(path))

\* File::open(path)
CanOpen(path) == path \in {PngPath, BinPath, DirPath}
\* read_to_end on the opened handle (a directory opens but cannot be read)
CanRead(path) == path \in {PngPath, BinPath}
Contents(path) ==
    CASE path = PngPath -> <<"\\x89", "P", "N", "G">>
      [] path = BinPath -> <<"\\x00", CRLF>>
      [] OTHER -> <<>>

\* mime_guess::guess_mime_type(path): by extension, else octet-stream.
GuessMimeType(path) ==
    IF path # <<>> /\ Last(path) = "test.png" THEN "image/png"
    ELSE IF path # <<>> /\ Last(path) = "missing.txt" THEN "text/plain"
    ELSE "application/octet-stream"

\* ------------------------------------------------ MultipartBodyBuilder
BoundaryLen == 30
RngStreams == { <<"a", "Z", "9">>, <<"Q", "x">> }
\* rng.gen_ascii_chars().take(30).collect()
NewBoundary(stream) ==
    [i \in 1..BoundaryLen |-> stream[((i - 1) % Len(stream)) + 1]]

CD_NAME == "Content-Disposition: form-data; name=\""
CD_FILENAME == "; filename=\""
CT_LINE == "Content-Type: "

\* One iteration of the params loop of build.
WriteParam(boundary, p) ==
    <<CRLF, DASHES>> \o boundary \o <<CRLF>>
    \o <<CD_NAME>> \o p[1] \o <<QUOTE>>
    \o <<CRLF>> \o p[2] \o <<CRLF>>

\* The header lines one iteration of the files loop writes before it
\* opens the file.
WriteFileHead(boundary, f) ==
    <<CRLF, DASHES>> \o boundary \o <<CRLF>>
    \o <<CD_NAME>> \o f.name \o <<QUOTE>>
    \o <<CD_FILENAME, Unwrap(FileName(f.path)), QUOTE>>
    \o <<CRLF, CT_LINE,
         IF IsSome(f.mime) THEN Unwrap(f.mime) ELSE GuessMimeType(f.path),
         CRLF, CRLF>>

\* Mutant: a file that cannot be opened or read is skipped.
RECURSIVE WriteFilesSkipUnreadable(_, _, _)
WriteFilesSkipUnreadable(boundary, fs, body) ==
    IF fs = <<>> THEN [status |-> "ok", body |-> body]
    ELSE LET f == Head(fs) IN
         IF ~IsSome(FileName(f.path)) THEN [status |-> "panic", body |-> body]
         ELSE IF ~CanOpen(f.path) \/ ~CanRead(f.path)
              THEN WriteFilesSkipUnreadable(boundary, Tail(fs), body)
              ELSE WriteFilesSkipUnreadable(boundary, Tail(fs),
                              body \o WriteFileHead(boundary, f)
                                   \o Contents(f.path) \o <<CRLF, CRLF>>)

\* The files loop of build: [status, body], status "ok", "io" (try! of
\* File::open or read_to_end returned early) or "panic" (file_name().unwrap()).
RECURSIVE WriteFiles(_, _, _)
WriteFiles(boundary, fs, body) ==
    IF fs = <<>> THEN [status |-> "ok", body |-> body]
    ELSE LET f == Head(fs) IN
         IF ~IsSome(FileName(f.path)) THEN [status |-> "panic", body |-> body]
         ELSE IF ~CanOpen(f.path) \/ ~CanRead(f.path)
              THEN [status |-> "io", body |-> body \o WriteFileHead(boundary, f)]
              ELSE WriteFiles(boundary, Tail(fs),
                              body \o WriteFileHead(boundary, f)
                                   \o Contents(f.path) \o <<CRLF, CRLF>>)

Terminator(boundary) == <<CRLF, DASHES>> \o boundary \o <<DASHES>>

\* Mutant: the files loop runs before the params loop.
BuildFilesFirst(boundary, fs, ps) ==
    LET afterFiles == WriteFiles(boundary, fs, <<>>)
        paramParts == Flatten([i \in 1..Len(ps) |-> WriteParam(boundary, ps[i])])
    IN IF afterFiles.status = "ok"
       THEN [status |-> "ok",
             body |-> afterFiles.body \o paramParts \o Terminator(boundary)]
       ELSE afterFiles

\* MultipartBodyBuilder::build(files, params)
Build(boundary, fs, ps) ==
    LET afterParams == Flatten([i \in 1..Len(ps) |-> WriteParam(boundary, ps[i])])
        afterFiles == WriteFiles(boundary, fs, afterParams)
    IN IF afterFiles.status = "ok"
       THEN [status |-> "ok", body |-> afterFiles.body \o Terminator(boundary)]
       ELSE afterFiles

\* --------------------------------------------------------- serde_json
\* serde_json::to_string(&thing)
SerdeToString(thing) ==
    IF thing.serializable
    THEN Some(<<"{\"foo\":\"">> \o thing.foo \o <<"\"}">>)
    ELSE None

\* serde_json::from_str::<D>(&response_string)
SerdeFromStr(s) ==
    IF Len(s) >= 2 /\ s[1] = "{\"foo\":\"" /\ Last(s) = "\"}"
    THEN Some([foo |-> SubSeq(s, 2, Len(s) - 1)])
    ELSE None

\* ------------------------------------------------------------ results
NoResponse == [status |-> 0, body |-> <<>>, readable |-> TRUE]
NoValue == [foo |-> <<>>]
NoResult == [kind |-> "None", response |-> NoResponse]
Panicked == [kind |-> "Panic", response |-> NoResponse]
NetworkErr == [kind |-> "Network", response |-> NoResponse]
OkResponse(r) == [kind |-> "Ok", response |-> r]
NotDecoded == [kind |-> "None", value |-> NoValue, response |-> NoResponse]

Statuses == {200, 201, 202, 204, 404, 500}
ResponseBodies == { <<"{\"foo\":\"", "b", "a", "r", "\"}">>,
                    <<"{\"foo\":">>,
                    <<"404 not found">> }
Responses == [status : Statuses, body : ResponseBodies, readable : BOOLEAN]

\* What the transport answers inside send.
SendResponses == { [status |-> 200, body |-> <<"{\"foo\":\"", "b", "a", "r", "\"}">>,
                    readable |-> TRUE] }
TransportOutcomes == {NetworkErr} \cup { OkResponse(r) : r \in SendResponses }

\* ---------------------------------------------------------------- Init
NewRequest(m, u) ==
    /\ method = m
    /\ url = u
    /\ params = <<>>
    /\ headers = [h \in HeaderNames |-> None]
    /\ files = <<>>
    /\ raw_body = None

Init ==
    /\ \E m \in Methods, u \in Urls : NewRequest(m, u)
    /\ pc = "building"
    /\ wire = None
    /\ result = NoResult
    /\ decoded = NotDecoded
    /\ body_read = FALSE
    /\ last_call = "new"
    /\ last_body_arg = NoBodyArg

\* ------------------------------------------------------ builder calls
SetHeader(hs, name, value) == [hs EXCEPT ![name] = Some(value)]

Params ==
    /\ pc = "building"
    /\ \E additional \in SeqsUpTo(ParamPool, MaxParams) :
          /\ Len(params) + Len(additional) <= MaxParams
          /\ params' = params \o additional
    /\ last_call' = "params"
    /\ UNCHANGED <<method, url, headers, files, raw_body,
                   pc, wire, result, decoded, body_read, last_body_arg>>

Files ==
    /\ pc = "building"
    /\ \E additional \in SeqsUpTo(FilePool, MaxFiles) :
          /\ Len(files) + Len(additional) <= MaxFiles
          /\ files' = files \o additional
    /\ last_call' = "files"
    /\ UNCHANGED <<method, url, params, headers, raw_body,
                   pc, wire, result, decoded, body_read, last_body_arg>>

Header ==
    /\ pc = "building"
    /\ \E h \in HeaderPool : headers' = SetHeader(headers, h[1], h[2])
    /\ last_call' = "header"
    /\ UNCHANGED <<method, url, params, files, raw_body,
                   pc, wire, result, decoded, body_read, last_body_arg>>

\* Mutant: override_body also drops the content-type header.
OverrideBodyDropsContentType ==
    /\ pc = "building"
    /\ \E body \in RawBodies :
          /\ raw_body' = Some(body)
          /\ last_body_arg' = [via |-> "override_body", thing |-> NoThing, text |-> body]
    /\ headers' = [headers EXCEPT !["content-type"] = None]
    /\ last_call' = "override_body"
    /\ UNCHANGED <<method, url, params, files,
                   pc, wire, result, decoded, body_read>>

OverrideBody ==
    /\ pc = "building"
    /\ \E body \in RawBodies :
          /\ raw_body' = Some(body)
          /\ last_body_arg' = [via |-> "override_body", thing |-> NoThing, text |-> body]
    /\ last_call' = "override_body"
    /\ UNCHANGED <<method, url, params, headers, files,
                   pc, wire, result, decoded, body_read>>

Json ==
    /\ pc = "building"
    /\ \E thing \in Things :
          LET text == SerdeToString(thing) IN
          IF IsSome(text)
          THEN /\ raw_body' = Some(Unwrap(text))
               /\ headers' = SetHeader(headers, "content-type", <<"application/json">>)
               /\ last_body_arg' = [via |-> "json", thing |-> thing, text |-> <<>>]
               /\ last_call' = "json"
               /\ UNCHANGED <<pc, result>>
          ELSE /\ pc' = "panicked"
               /\ result' = Panicked
               /\ last_call' = "json"
               /\ UNCHANGED <<raw_body, headers, last_body_arg>>
    /\ UNCHANGED <<method, url, params, files, wire, decoded, body_read>>

\* ---------------------------------------------------------------- send
BodyLess == {"Get", "Head"}

FormContentType == <<"application/x-www-form-urlencoded">>
MultipartContentType(boundary) == <<"multipart/form-data; boundary=">> \o boundary

\* Mutant: the query string is appended for GET only.
UrlStringGetOnly(m, u, ps) ==
    IF Len(ps) > 0 /\ m = "Get"
    THEN Serialize(u) \o <<"?">> \o FormUrlencodedSerialize(ps)
    ELSE Serialize(u)

\* lines 260-264: the URL handed to client.request
UrlString(m, u, ps) ==
    IF Len(ps) > 0 /\ m \in BodyLess
    THEN Serialize(u) \o <<"?">> \o FormUrlencodedSerialize(ps)
    ELSE Serialize(u)

\* The multipart branch of send (lines 279-285).
MultipartRequest(ps, hs, fs, boundary) ==
    LET builder == Build(boundary, fs, ps) IN
    IF builder.status = "ok"
    THEN [status |-> "ok",
          headers |-> SetHeader(hs, "content-type", MultipartContentType(boundary)),
          body |-> Some(builder.body)]
    ELSE [status |-> builder.status, headers |-> hs, body |-> None]

\* Mutant: a single file is not enough to take the multipart branch.
AssembleOneFileAsForm(m, ps, hs, fs, raw, boundary) ==
    IF IsSome(raw)
    THEN [status |-> "ok", headers |-> hs, body |-> Some(Unwrap(raw))]
    ELSE IF m \notin BodyLess
         THEN IF Len(fs) <= 1
              THEN [status |-> "ok",
                    headers |-> SetHeader(hs, "content-type", FormContentType),
                    body |-> Some(FormUrlencodedSerialize(ps))]
              ELSE MultipartRequest(ps, hs, fs, boundary)
         ELSE [status |-> "ok", headers |-> hs, body |-> None]

\* Mutant: files are looked at before the raw body.
AssembleFilesFirst(m, ps, hs, fs, raw, boundary) ==
    IF m \notin BodyLess /\ Len(fs) > 0
    THEN MultipartRequest(ps, hs, fs, boundary)
    ELSE IF IsSome(raw)
         THEN [status |-> "ok", headers |-> hs, body |-> Some(Unwrap(raw))]
         ELSE IF m \notin BodyLess
              THEN [status |-> "ok",
                    headers |-> SetHeader(hs, "content-type", FormContentType),
                    body |-> Some(FormUrlencodedSerialize(ps))]
              ELSE [status |-> "ok", headers |-> hs, body |-> None]

\* lines 266-287: the headers and body of the hyper request, or the early
\* return (status "io") or panic (status "panic") of the multipart branch.
Assemble(m, ps, hs, fs, raw, boundary) ==
    IF IsSome(raw)
    THEN [status |-> "ok", headers |-> hs, body |-> Some(Unwrap(raw))]
    ELSE IF m \notin BodyLess
         THEN IF Len(fs) = 0
              THEN [status |-> "ok",
                    headers |-> SetHeader(hs, "content-type", FormContentType),
                    body |-> Some(FormUrlencodedSerialize(ps))]
              ELSE MultipartRequest(ps, hs, fs, boundary)
         ELSE [status |-> "ok", headers |-> hs, body |-> None]

Send ==
    /\ pc = "building"
    /\ last_call' = "send"
    /\ IF ~IsSome(IntoUrl(url))
       THEN \* self.url.into_url().unwrap()
            /\ pc' = "panicked"
            /\ result' = Panicked
            /\ wire' = None
       ELSE \E stream \in RngStreams, answer \in TransportOutcomes :
              LET req == Assemble(method, params, headers, files, raw_body,
                                  NewBoundary(stream))
              IN CASE req.status = "panic" ->
                        /\ pc' = "panicked"
                        /\ result' = Panicked
                        /\ wire' = None
                   [] req.status = "io" ->
                        /\ pc' = "sent"
                        /\ result' = NetworkErr
                        /\ wire' = None
                   [] OTHER ->
                        /\ pc' = "sent"
                        /\ wire' = Some([method |-> method,
                                         url |-> UrlString(method, Unwrap(IntoUrl(url)), params),
                                         headers |-> req.headers,
                                         body |-> req.body])
                        /\ result' = answer
    /\ UNCHANGED <<request, decoded, body_read, last_body_arg>>

\* ------------------------------------------------------ decode_success
StatusOk == 200
StatusCreated == 201
StatusAccepted == 202

\* Mutant: every 2xx status is taken for a success.
DecodeAny2xx(res) ==
    IF res.kind # "Ok"
    THEN [decoded |-> [kind |-> res.kind, value |-> NoValue, response |-> NoResponse],
          body_read |-> FALSE]
    ELSE LET r == res.response IN
         IF r.status >= 200 /\ r.status < 300
         THEN IF ~r.readable
              THEN [decoded |-> [kind |-> "Network", value |-> NoValue,
                                 response |-> NoResponse],
                    body_read |-> TRUE]
              ELSE LET v == SerdeFromStr(r.body) IN
                   IF IsSome(v)
                   THEN [decoded |-> [kind |-> "Ok", value |-> Unwrap(v),
                                      response |-> NoResponse],
                         body_read |-> TRUE]
                   ELSE [decoded |-> [kind |-> "Json", value |-> NoValue,
                                      response |-> NoResponse],
                         body_read |-> TRUE]
         ELSE [decoded |-> [kind |-> "Status", value |-> NoValue, response |-> r],
               body_read |-> FALSE]

\* decode_success(self): [decoded, body_read]
Decode(res) ==
    IF res.kind # "Ok"
    THEN [decoded |-> [kind |-> res.kind, value |-> NoValue, response |-> NoResponse],
          body_read |-> FALSE]
    ELSE LET r == res.response IN
         IF r.status \in {StatusOk, StatusCreated, StatusAccepted}
         THEN IF ~r.readable
              THEN [decoded |-> [kind |-> "Network", value |-> NoValue,
                                 response |-> NoResponse],
                    body_read |-> TRUE]
              ELSE LET v == SerdeFromStr(r.body) IN
                   IF IsSome(v)
                   THEN [decoded |-> [kind |-> "Ok", value |-> Unwrap(v),
                                      response |-> NoResponse],
                         body_read |-> TRUE]
                   ELSE [decoded |-> [kind |-> "Json", value |-> NoValue,
                                      response |-> NoResponse],
                         body_read |-> TRUE]
         ELSE [decoded |-> [kind |-> "Status", value |-> NoValue, response |-> r],
               body_read |-> FALSE]

DecodeSuccess ==
    /\ pc = "sent"
    /\ pc' = "decoded"
    /\ decoded' = Decode(result).decoded
    /\ body_read' = Decode(result).body_read
    /\ UNCHANGED <<request, wire, result, last_call, last_body_arg>>

\* ------------------------------------------------------ specifications
Next == Params \/ Files \/ Header \/ OverrideBody \/ Json \/ Send

Spec == Init /\ [][Next]_vars

\* decode_success on every result send can hand over.
DecodeInit ==
    /\ \E m \in Methods, u \in Urls : NewRequest(m, u)
    /\ pc = "sent"
    /\ wire = None
    /\ result \in {NetworkErr} \cup { OkResponse(r) : r \in Responses }
    /\ decoded = NotDecoded
    /\ body_read = FALSE
    /\ last_call = "send"
    /\ last_body_arg = NoBodyArg

DecodeNext == DecodeSuccess

SpecDecode == DecodeInit /\ [][DecodeNext]_vars

\* ------------------------------------------- reading what was sent
OccursAt(s, sub, i) ==
    /\ i >= 1
    /\ i + Len(sub) - 1 <= Len(s)
    /\ SubSeq(s, i, i + Len(sub) - 1) = sub
Occurrences(s, sub) == { i \in 1..Len(s) : OccursAt(s, sub, i) }
Contains(s, sub) == Occurrences(s, sub) # {}
Count(s, atom) == Cardinality({ i \in 1..Len(s) : s[i] = atom })
EndsWith(s, sub) == OccursAt(s, sub, Len(s) - Len(sub) + 1)

RECURSIVE SortedSeq(_)
SortedSeq(S) ==
    IF S = {} THEN <<>>
    ELSE LET m == CHOOSE x \in S : \A y \in S : x <= y
         IN <<m>> \o SortedSeq(S \ {m})

\* A receiver's reading of a form-urlencoded string: split at "&", split
\* each pair at "=", undo the percent-encoding.
RECURSIVE Split(_, _)
Split(s, sep) ==
    LET at == { i \in 1..Len(s) : s[i] = sep } IN
    IF at = {} THEN <<s>>
    ELSE LET i == CHOOSE x \in at : \A y \in at : x <= y
         IN <<SubSeq(s, 1, i - 1)>> \o Split(SubSeq(s, i + 1, Len(s)), sep)

HexDecode(h, l) ==
    CASE h = "2" /\ l = "6" -> "&"
      [] h = "3" /\ l = "D" -> "="
      [] h = "3" /\ l = "F" -> "?"
      [] OTHER -> "\\xXX"

RECURSIVE PercentDecode(_)
PercentDecode(s) ==
    IF s = <<>> THEN <<>>
    ELSE IF s[1] = "+" THEN <<" ">> \o PercentDecode(Tail(s))
    ELSE IF s[1] = "%" /\ Len(s) >= 3
         THEN <<HexDecode(s[2], s[3])>> \o PercentDecode(SubSeq(s, 4, Len(s)))
    ELSE <<s[1]>> \o PercentDecode(Tail(s))

FormDecode(q) ==
    IF q = <<>> THEN <<>>
    ELSE LET pairs == Split(q, "&") IN
         [i \in 1..Len(pairs) |->
             LET kv == Split(pairs[i], "=") IN
             IF Len(kv) = 2 THEN <<PercentDecode(kv[1]), PercentDecode(kv[2])>>
             ELSE <<pairs[i], <<"malformed">> >>]

Sent == pc = "sent" /\ IsSome(wire)
SentBody == Unwrap(wire).body
SentUrl == Unwrap(wire).url
SentContentType == Unwrap(wire).headers["content-type"]

\* The content-type sent is multipart/form-data; boundary=<30-char token>.
IsMultipartContentType(ct) ==
    /\ IsSome(ct)
    /\ Len(Unwrap(ct)) = 1 + BoundaryLen
    /\ Unwrap(ct)[1] = "multipart/form-data; boundary="
SentBoundary == Tail(Unwrap(SentContentType))

\* A file's part is in the body: its field name and file name in one
\* Content-Disposition line, and its bytes after a blank line.
HasFilePart(body, f) ==
    /\ Contains(body, <<CD_NAME>> \o f.name \o
                      <<QUOTE, CD_FILENAME, Last(f.path), QUOTE, CRLF>>)
    /\ Contains(body, <<CRLF, CRLF>> \o Contents(f.path) \o <<CRLF, CRLF>>)

SentIsMultipart ==
    /\ IsMultipartContentType(SentContentType)
    /\ IsSome(SentBody)
    /\ \A i \in 1..Len(files) : HasFilePart(Unwrap(SentBody), files[i])
    /\ Contains(Unwrap(SentBody), <<DASHES>> \o SentBoundary)

\* ------------------------------------------------------------------ C1
\* C1 as stated: whenever a request with a non-empty files list is handed to
\* the transport, it is multipart-encoded, whether or not a raw body was set.
C1_FilesForceMultipart ==
    (Sent /\ files # <<>>) => SentIsMultipart

\* C1 amended: a request with a non-empty files list, a method other than
\* GET/HEAD and no raw body is handed to the transport multipart-encoded:
\* content-type multipart/form-data; boundary=<token>, body holding each
\* file's part.
C1_FilesMultipartWithoutRawBody ==
    (Sent /\ files # <<>> /\ raw_body = None /\ method \notin BodyLess)
        => SentIsMultipart

C1_Witness ==
    /\ Sent /\ Len(files) = 2 /\ files[1] # files[2]
    /\ raw_body = None /\ method = "Post"
    /\ IsSome(headers["content-type"])

\* ------------------------------------------------------------------ C2
HasOwnQuery(u) == Count(u, "?") > 0

\* The places of the URL where a "?" is followed, up to the end, by an
\* encoding of ps.
QueryStarts(u, ps) ==
    { i \in 1..Len(u) :
        u[i] = "?" /\ FormDecode(SubSeq(u, i + 1, Len(u))) = ps }

\* C2 as stated: a GET/HEAD request with params, whatever else was called
\* before send, is sent without a body, its URL carrying exactly one "?"
\* followed by the encoded params in insertion order.
C2_BodylessQueryAlways ==
    (Sent /\ method \in BodyLess /\ params # <<>>) =>
        /\ SentBody = None
        /\ Cardinality(QueryStarts(SentUrl, params)) = 1

\* C2 amended: a GET/HEAD request with params and no raw body is sent
\* without a body; its URL is the serialised request URL, then one "?",
\* then the encoded params in insertion order; that is the only "?" of the
\* URL when the request URL has no query of its own.
C2_BodylessQueryWithoutRawBody ==
    (Sent /\ method \in BodyLess /\ params # <<>> /\ raw_body = None) =>
        LET base == Serialize(Unwrap(IntoUrl(url)))
            query == SubSeq(SentUrl, Len(base) + 2, Len(SentUrl))
        IN /\ SentBody = None
           /\ IsPrefix(base \o <<"?">>, SentUrl)
           /\ Count(query, "?") = 0
           /\ FormDecode(query) = params
           /\ Cardinality(QueryStarts(SentUrl, params)) = 1
           /\ (~HasOwnQuery(url) => Count(SentUrl, "?") = 1)

C2_Witness ==
    /\ Sent /\ method = "Head" /\ Len(params) = 2 /\ params[1] # params[2]
    /\ raw_body = None /\ files # <<>> /\ ~HasOwnQuery(url)

\* ------------------------------------------------------------------ C3
\* C3: with a raw body present at send, the body sent is that raw body (so
\* no param encoding is in it) and the headers sent are the request's own:
\* send did not set or change content-type.
C3_RawBodyVerbatim ==
    (Sent /\ IsSome(raw_body)) =>
        /\ SentBody = raw_body
        /\ SentContentType = headers["content-type"]
        /\ (params # <<>> =>
              ~Contains(Unwrap(SentBody), FormUrlencodedSerialize(params)))

C3_Witness ==
    /\ Sent /\ IsSome(raw_body) /\ params # <<>> /\ files # <<>>
    /\ method = "Post" /\ SentContentType = Some(<<"application/json">>)

\* ------------------------------------------------------------------ C4
\* C4: a request with a method other than GET/HEAD, no raw body and no files
\* is sent with the form-urlencoded params as body (name=value pairs joined
\* by "&", insertion order, duplicates kept), content-type
\* application/x-www-form-urlencoded whatever header() had set, and the
\* serialised request URL with nothing appended.
C4_FormBody ==
    (Sent /\ method \notin BodyLess /\ raw_body = None /\ files = <<>>) =>
        /\ IsSome(SentBody)
        /\ FormDecode(Unwrap(SentBody)) = params
        /\ Count(Unwrap(SentBody), "&") = (IF params = <<>> THEN 0 ELSE Len(params) - 1)
        /\ Count(Unwrap(SentBody), "=") = Len(params)
        /\ SentContentType = Some(<<"application/x-www-form-urlencoded">>)
        /\ SentUrl = Serialize(Unwrap(IntoUrl(url)))

C4_Witness ==
    /\ Sent /\ method = "Post" /\ raw_body = None /\ files = <<>>
    /\ Len(params) = 2 /\ params[1] # params[2]
    /\ headers["content-type"] = Some(<<"application/potato">>)

\* ------------------------------------------------------------------ C5
MultipartSent ==
    Sent /\ raw_body = None /\ method \notin BodyLess /\ files # <<>>

\* C5: in the multipart body every param is rendered with its
\* Content-Disposition line, an empty line, then the value.
C5_ParamBlankLine ==
    MultipartSent =>
        \A i \in 1..Len(params) :
            Contains(Unwrap(SentBody),
                     <<CRLF, DASHES>> \o SentBoundary \o <<CRLF>>
                     \o <<CD_NAME>> \o params[i][1] \o <<QUOTE>>
                     \o <<CRLF, CRLF>> \o params[i][2] \o <<CRLF>>)

\* ------------------------------------------------------------------ C6
\* The pieces of a body between successive "--<boundary>" delimiters.
PartsOf(body, boundary) ==
    LET delim == <<DASHES>> \o boundary
        at == SortedSeq(Occurrences(body, delim))
    IN [k \in 1..Len(at) |->
          SubSeq(body, at[k] + Len(delim),
                 IF k < Len(at) THEN at[k + 1] - 1 ELSE Len(body))]

IsParamPart(part, p) ==
    /\ IsPrefix(<<CRLF, CD_NAME>> \o p[1] \o <<QUOTE, CRLF>>, part)
    /\ EndsWith(part, p[2] \o <<CRLF, CRLF>>)
    /\ ~Contains(part, <<CD_FILENAME>>)

IsFilePart(part, f) ==
    /\ IsPrefix(<<CRLF, CD_NAME>> \o f.name \o
                <<QUOTE, CD_FILENAME, Last(f.path), QUOTE, CRLF, CT_LINE>>, part)
    /\ EndsWith(part, <<CRLF, CRLF>> \o Contents(f.path) \o <<CRLF, CRLF, CRLF>>)

\* C6: on the multipart path the body is the param parts in order, then the
\* file parts in order, each once and each after a "--<boundary>" line, then
\* the terminator "\r\n--<boundary>--"; the boundary of the content-type
\* header is the boundary of the body.
C6_MultipartLayout ==
    MultipartSent =>
        LET body == Unwrap(SentBody)
            parts == PartsOf(body, SentBoundary)
            np == Len(params)
            nf == Len(files)
        IN /\ IsMultipartContentType(SentContentType)
           /\ Len(parts) = np + nf + 1
           /\ IsPrefix(<<CRLF, DASHES>> \o SentBoundary \o <<CRLF>>, body)
           /\ \A k \in 1..np : IsParamPart(parts[k], params[k])
           /\ \A k \in 1..nf : IsFilePart(parts[np + k], files[k])
           /\ parts[np + nf + 1] = <<DASHES>>
           /\ EndsWith(body, <<CRLF, DASHES>> \o SentBoundary \o <<DASHES>>)

C6_Witness ==
    /\ MultipartSent /\ Len(params) = 2 /\ Len(files) = 2
    /\ params[1] # params[2] /\ files[1] # files[2]

\* ------------------------------------------------------------------ C7
SuccessStatuses == {200, 201, 202}
WellFormedBodies == { <<"{\"foo\":\"", "b", "a", "r", "\"}">> }

Readable(f) == IsSome(FileName(f.path)) /\ CanOpen(f.path) /\ CanRead(f.path)
IoFails(f) == IsSome(FileName(f.path)) /\ (~CanOpen(f.path) \/ ~CanRead(f.path))

\* The multipart assembly stops at a file that cannot be opened or read.
AssemblyFailsOnFile ==
    /\ raw_body = None /\ method \notin BodyLess /\ IsSome(IntoUrl(url))
    /\ \E i \in 1..Len(files) :
          /\ IoFails(files[i])
          /\ \A j \in 1..(i - 1) : Readable(files[j])

\* C8: when send's multipart assembly fails on a file that cannot be opened
\* or read, at whatever position, send returns a Network error and the
\* transport is never invoked.
C8_NoPartialSend ==
    (last_call = "send" /\ AssemblyFailsOnFile) =>
        /\ pc = "sent"
        /\ result = NetworkErr
        /\ wire = None

C8_Witness ==
    /\ last_call = "send" /\ AssemblyFailsOnFile
    /\ Len(files) = 2 /\ Readable(files[1]) /\ ~CanRead(files[2].path)
    /\ CanOpen(files[2].path)
    /\ params # <<>>

\* ------------------------------------------------------------------ C9
\* C9: a failure of the chain comes back as a tagged error result, never as
\* a panic; in particular send, given a URL that does not parse or a file
\* path without a file name, returns an error result.
C9_SendNeverPanics ==
    last_call = "send" => (pc # "panicked" /\ result.kind # "Panic")

\* ----------------------------------------------------------------- C10
BodyOf(arg) ==
    CASE arg.via = "json" -> SerdeToString(arg.thing)
      [] arg.via = "override_body" -> Some(arg.text)
      [] OTHER -> None

C10_Stored ==
    pc = "building" => raw_body = BodyOf(last_body_arg)

C10_Step ==
    pc' = "building" =>
        /\ (last_call' = "override_body" => headers' = headers)
        /\ (last_call' = "json" =>
               /\ headers'["content-type"] = Some(<<"application/json">>)
               /\ \A h \in HeaderNames \ {"content-type"} : headers'[h] = headers[h])
        /\ (last_call' \notin {"json", "header"} => headers' = headers)
        /\ (last_call' \notin {"json", "override_body"} => raw_body' = raw_body)
        /\ IsPrefix(params, params')
        /\ IsPrefix(files, files')

\* C10: while the request is being built, the stored raw body is the
\* argument of the most recent json or override_body call, content-type is
\* changed only by json and header calls and never by override_body, and
\* params and files only grow at the end.
C10_BuilderState ==
    [](C10_Stored) /\ [][C10_Step]_vars

C10_Witness ==
    /\ pc = "building" /\ last_call = "override_body"
    /\ headers["content-type"] = Some(<<"application/json">>)
    /\ raw_body = Some(<<"A potato's body">>)
    /\ params # <<>> /\ files # <<>>

====
